---- MODULE Spec2Model ----
(***************************************************************************)
(* Model of doit/cmds.py: the command-line functions doit_run,             *)
(* doit_forget, doit_ignore and the FileModifyWatcher class.               *)
(*                                                                         *)
(* One behaviour is one invocation of one command on one task list and one *)
(* dependency store.  Every loop iteration of the source is one step.      *)
(***************************************************************************)
EXTENDS Integers, Sequences, FiniteSets, TLC

VARIABLES
    cmd,          \* which command is invoked
    pc,           \* position inside the command
    result,       \* "none" while running, "return", or the exception raised
    errArg,       \* the identifier named by the exception message
    retval,       \* the value returned: <<>> for None, <<v>> for v
    tasks,        \* dict name -> Task (fields actions, task_dep)
    names,        \* forgetTasks / ignoreTasks: the requested names
    idx,          \* position of the `for taskName in ...` loop
    group,        \* the work-list `group`
    db0,          \* the store's records when the command starts
    db,           \* the store's records
    handle,       \* dependencyManager: "none", "open", "closed"
    calls,        \* sequence of mutating calls made on the store
    out,          \* lines written to outstream
    reporter,     \* doit_run: the reporter name
    output,       \* doit_run: "path" (a str) or "stream" (file-like object)
    outfile,      \* doit_run: stream of the output: "unopened", "open", "closed"
    selected,     \* doit_run: TRUE once selected_tasks has been computed
    reporter_obj, \* doit_run: TRUE once reporter_cls(...) has been constructed
    ran,          \* doit_run: number of run_tasks invocations
    files,        \* FileModifyWatcher: the file_list argument
    file_list,    \* FileModifyWatcher.file_list
    watch_dirs,   \* FileModifyWatcher.watch_dirs
    watches,      \* sequence of wm.add_watch calls
    event,        \* pathname of the last event delivered by the notifier
    handled,      \* TRUE iff the last event reached handle_event
    evCount,      \* number of events delivered
    nHandled,     \* number of handle_event invocations
    opts,         \* the command's flags (doit_list print_*, doit_clean dryrun)
    stale,        \* tasks whose file_dep differ from the stored fingerprints
    file_dep,     \* doit_auto: Task.file_dep as currently declared
    runLog,       \* doit_auto: arguments of each doit_run call of handle_event
    runsDone,     \* doit_auto: number of doit_run calls that have ended
    nQualifying,  \* number of events delivered for a watched file
    cleaned,      \* doit_clean: sequence of Task.clean calls
    run_ret,      \* doit_run: what run_tasks returned, <<>> before it has
    pending       \* doit_list: pending _list_print_task calls, first on top

vars == <<cmd, pc, result, errArg, retval, tasks, names, idx, group, db0, db, handle,
          calls, out, reporter, output, outfile, selected, reporter_obj, ran,
          files, file_list, watch_dirs, watches, event, handled, evCount,
          nHandled, opts, stale, file_dep, runLog, runsDone, nQualifying,
          cleaned, run_ret, pending>>

cmdVars   == <<cmd, tasks, names, db0>>
storeVars == <<db, handle, calls>>
loopVars  == <<idx, group>>
runVars   == <<reporter, output, outfile, selected, reporter_obj, ran>>
watchVars == <<files, file_list, watch_dirs, watches, event, handled, evCount,
               nHandled>>
inVars    == <<opts, stale>>
autoVars  == <<file_dep, runLog, runsDone, nQualifying>>
auxVars   == <<inVars, autoVars, cleaned, run_ret, pending>>

(***************************************************************************)
(* Bounds of the model.                                                    *)
(***************************************************************************)
MaxNames  == 2   \* longest request list
MaxCalls  == 9   \* store calls after which a traversal is cut off
MaxFiles  == 2   \* longest file_list given to the watcher
MaxEvents == 2   \* events delivered by the notifier

Range(s) == {s[i] : i \in 1..Len(s)}

SeqsUpTo(S, n) == UNION {[1..k -> S] : k \in 0..n}

(***************************************************************************)
(* Task lists.                                                             *)
(***************************************************************************)
TaskNames == {"a", "b", "c"}

Unknown == "nope"

RequestNames == TaskNames \cup {Unknown}

Deps(a, b, c) == ("a" :> a) @@ ("b" :> b) @@ ("c" :> c)

\* task_dep of the three tasks: none, a group of two, nested groups, a
\* diamond (c is reached through a and through b), the same with the members
\* in the other order, a group listing itself, two groups listing each other.
TaskDepShapes ==
    { Deps(<<>>, <<>>, <<>>),
      Deps(<<"b", "c">>, <<>>, <<>>),
      Deps(<<"b">>, <<"c">>, <<>>),
      Deps(<<"b", "c">>, <<"c">>, <<>>),
      Deps(<<"c", "b">>, <<"c">>, <<>>),
      Deps(<<"b">>, <<>>, <<"b">>),
      Deps(<<"a">>, <<>>, <<>>),
      Deps(<<"b">>, <<"a">>, <<>>) }

\* Task.actions is modelled by whether the list is non-empty.
TaskLists ==
    { [actions |-> act, task_dep |-> dep] :
        act \in [TaskNames -> BOOLEAN], dep \in TaskDepShapes }

(***************************************************************************)
(* The dependency store (doit.dependency.Dependency).                      *)
(***************************************************************************)
NoRecord == [saved |-> FALSE, ignored |-> FALSE]

Saved == [saved |-> TRUE, ignored |-> FALSE]

SavedIgnored == [saved |-> TRUE, ignored |-> TRUE]

InitStores ==
    { [t \in TaskNames |-> NoRecord],
      [t \in TaskNames |-> Saved],
      Deps(Saved, SavedIgnored, NoRecord) }

\* Dependency.remove(name): deletes the record of one task.
Remove(store, name) == [store EXCEPT ![name] = NoRecord]

\* Dependency.remove_all(): clears every record.
RemoveAll(store) == [t \in DOMAIN store |-> NoRecord]

\* Dependency.ignore(task): sets the ignored flag, keeps the fingerprints.
Ignore(store, name) == [store EXCEPT ![name].ignored = TRUE]

\* A call <<method, argument>> made on the store, applied to its records.
StoreApply(store, call) ==
    CASE call[1] = "remove"     -> Remove(store, call[2])
      [] call[1] = "remove_all" -> RemoveAll(store)
      [] call[1] = "ignore"     -> Ignore(store, call[2])

(***************************************************************************)
(* doit_forget                                                             *)
(***************************************************************************)
\* outstream.write("forgeting %s\n" % to_forget)
ForgetLine(name) == <<"forgeting", name>>

ForgetAllLine == <<"forgeting all tasks", "">>

\* Mutant of ForgetIsAll: the forget-all branch is never taken.
ForgetIsAllNever == FALSE

\* `if not forgetTasks`
ForgetIsAll == names = <<>>

\* dependencyManager.remove_all()
ForgetAllCall == <<"remove_all", "">>

\* dependencyManager.remove(to_forget)
ForgetCall(to_forget) == <<"remove", to_forget>>

\* dependencyManager = dependency.Dependency(dbFileName); `if not forgetTasks`
ForgetOpen ==
    /\ cmd = "forget" /\ pc = "start"
    /\ handle' = "open"
    /\ pc' = IF ForgetIsAll THEN "forget_all" ELSE "for"
    /\ UNCHANGED <<cmdVars, auxVars, retval, result, errArg, loopVars, db, calls, out,
                   runVars, watchVars>>

\* dependencyManager.remove_all(); outstream.write("forgeting all tasks\n")
ForgetAll ==
    /\ cmd = "forget" /\ pc = "forget_all"
    /\ db' = StoreApply(db, ForgetAllCall)
    /\ calls' = Append(calls, ForgetAllCall)
    /\ out' = Append(out, ForgetAllLine)
    /\ pc' = "close"
    /\ UNCHANGED <<cmdVars, auxVars, retval, result, errArg, loopVars, handle, runVars, watchVars>>

\* for taskName in forgetTasks: the existence check and `group = [taskName]`
ForgetNext ==
    /\ cmd = "forget" /\ pc = "for"
    /\ IF idx > Len(names)
         THEN /\ pc' = "close"
              /\ UNCHANGED <<result, errArg, group>>
         ELSE IF names[idx] \notin DOMAIN tasks.actions
                THEN /\ pc' = "done"
                     /\ result' = "InvalidCommand"
                     /\ errArg' = names[idx]
                     /\ UNCHANGED group
                ELSE /\ pc' = "while"
                     /\ group' = <<names[idx]>>
                     /\ UNCHANGED <<result, errArg>>
    /\ UNCHANGED <<cmdVars, auxVars, retval, idx, storeVars, out, runVars, watchVars>>

\* Mutant of ForgetExtend: the `if not tasks[to_forget].actions` test is lost.
ForgetExtendAlways(to_forget) == tasks.task_dep[to_forget]

\* The members a visited task adds to the work-list: task_dep of a task
\* without actions, nothing for a task with actions.
ForgetExtend(to_forget) ==
    IF ~tasks.actions[to_forget] THEN tasks.task_dep[to_forget] ELSE <<>>

\* Mutant of ForgetQueue: the work-list is replaced instead of extended.
ForgetQueueReplaced(g) == ForgetExtend(Head(g))

\* The work-list after one iteration: `group.pop(0)`, then `group.extend`.
ForgetQueue(g) == Tail(g) \o ForgetExtend(Head(g))

\* one iteration of `while group`, or the end of the loop
ForgetStep ==
    /\ cmd = "forget" /\ pc = "while"
    /\ IF group = <<>>
         THEN /\ pc' = "for"
              /\ idx' = idx + 1
              /\ UNCHANGED <<group, db, calls, out>>
         ELSE LET to_forget == Head(group) IN
              /\ Len(calls) < MaxCalls
              /\ group' = ForgetQueue(group)
              /\ db' = StoreApply(db, ForgetCall(to_forget))
              /\ calls' = Append(calls, ForgetCall(to_forget))
              /\ out' = Append(out, ForgetLine(to_forget))
              /\ UNCHANGED <<pc, idx>>
    /\ UNCHANGED <<cmdVars, auxVars, retval, result, errArg, handle, runVars, watchVars>>

\* dependencyManager.close()
ForgetClose ==
    /\ cmd = "forget" /\ pc = "close"
    /\ handle' = "closed"
    /\ pc' = "done"
    /\ result' = "return"
    /\ UNCHANGED <<cmdVars, auxVars, retval, errArg, loopVars, db, calls, out, runVars, watchVars>>

(***************************************************************************)
(* doit_ignore                                                             *)
(***************************************************************************)
IgnoreLine(name) == <<"ignoring", name>>

RefusalLine == <<"You cant ignore all tasks! Please select a task.", "">>

\* Mutant of IgnoreRefuses: the empty-list guard is lost.
IgnoreRefusesNever == FALSE

\* `if not ignoreTasks`
IgnoreRefuses == names = <<>>

\* Mutant of IgnoreCall: the call copied from doit_forget is left as remove.
IgnoreCallRemoves(to_ignore) == <<"remove", to_ignore>>

\* dependencyManager.ignore(tasks[to_ignore])
IgnoreCall(to_ignore) == <<"ignore", to_ignore>>

\* `if not ignoreTasks: write; return`, else Dependency(dbFileName)
IgnoreOpen ==
    /\ cmd = "ignore" /\ pc = "start"
    /\ IF IgnoreRefuses
         THEN /\ out' = Append(out, RefusalLine)
              /\ pc' = "done"
              /\ result' = "return"
              /\ UNCHANGED handle
         ELSE /\ handle' = "open"
              /\ pc' = "for"
              /\ UNCHANGED <<out, result>>
    /\ UNCHANGED <<cmdVars, auxVars, retval, errArg, loopVars, db, calls, runVars, watchVars>>

\* for taskName in ignoreTasks: the existence check and `group = [taskName]`
IgnoreNext ==
    /\ cmd = "ignore" /\ pc = "for"
    /\ IF idx > Len(names)
         THEN /\ pc' = "close"
              /\ UNCHANGED <<result, errArg, group>>
         ELSE IF names[idx] \notin DOMAIN tasks.actions
                THEN /\ pc' = "done"
                     /\ result' = "InvalidCommand"
                     /\ errArg' = names[idx]
                     /\ UNCHANGED group
                ELSE /\ pc' = "while"
                     /\ group' = <<names[idx]>>
                     /\ UNCHANGED <<result, errArg>>
    /\ UNCHANGED <<cmdVars, auxVars, retval, idx, storeVars, out, runVars, watchVars>>

IgnoreExtend(to_ignore) ==
    IF ~tasks.actions[to_ignore] THEN tasks.task_dep[to_ignore] ELSE <<>>

\* The work-list after one iteration: `group.pop(0)`, then `group.extend`.
IgnoreQueue(g) == Tail(g) \o IgnoreExtend(Head(g))

\* one iteration of `while group`, or the end of the loop
IgnoreStep ==
    /\ cmd = "ignore" /\ pc = "while"
    /\ IF group = <<>>
         THEN /\ pc' = "for"
              /\ idx' = idx + 1
              /\ UNCHANGED <<group, db, calls, out>>
         ELSE LET to_ignore == Head(group) IN
              /\ Len(calls) < MaxCalls
              /\ group' = IgnoreQueue(group)
              /\ db' = StoreApply(db, IgnoreCall(to_ignore))
              /\ calls' = Append(calls, IgnoreCall(to_ignore))
              /\ out' = Append(out, IgnoreLine(to_ignore))
              /\ UNCHANGED <<pc, idx>>
    /\ UNCHANGED <<cmdVars, auxVars, retval, result, errArg, handle, runVars, watchVars>>

\* dependencyManager.close()
IgnoreClose ==
    /\ cmd = "ignore" /\ pc = "close"
    /\ handle' = "closed"
    /\ pc' = "done"
    /\ result' = "return"
    /\ UNCHANGED <<cmdVars, auxVars, retval, errArg, loopVars, db, calls, out, runVars, watchVars>>

(***************************************************************************)
(* doit_run                                                                *)
(***************************************************************************)
\* doit.reporter.REPORTERS: the names of the reporter registry.
REPORTERS == {"default", "executed-only"}

ReporterNames == REPORTERS \cup {"nope"}

\* What TaskSetup(task_list, options).process() can do: return the selected
\* tasks, or raise.
SelectOutcomes == {"ok", "InvalidCommand", "SelectionError"}

\* What run_tasks returns.
ExitCodes == {0, 1}

\* selected_tasks = TaskSetup(task_list, options).process()
RunSelect ==
    /\ cmd = "run" /\ pc = "start"
    /\ \E o \in SelectOutcomes :
         IF o = "ok"
           THEN /\ pc' = "reporter"
                /\ selected' = TRUE
                /\ UNCHANGED result
           ELSE /\ pc' = "done"
                /\ result' = o
                /\ UNCHANGED selected
    /\ UNCHANGED <<cmdVars, auxVars, retval, errArg, loopVars, storeVars, out,
                   reporter, output, outfile, reporter_obj, ran, watchVars>>

\* Mutant of RunReporterKnown: the registry check is lost.
RunReporterUnchecked == TRUE

\* `if reporter not in REPORTERS`
RunReporterKnown == reporter \in REPORTERS

\* the reporter lookup: raise InvalidCommand or go on to open the output
RunCheckReporter ==
    /\ cmd = "run" /\ pc = "reporter"
    /\ IF ~RunReporterKnown
         THEN /\ pc' = "done"
              /\ result' = "InvalidCommand"
              /\ errArg' = reporter
         ELSE /\ pc' = "open"
              /\ UNCHANGED <<result, errArg>>
    /\ UNCHANGED <<cmdVars, auxVars, retval, loopVars, storeVars, out, runVars, watchVars>>

\* `if isinstance(output, str): outstream = open(output, 'w')`
RunOpen ==
    /\ cmd = "run" /\ pc = "open"
    /\ outfile' = IF output = "path" THEN "open" ELSE outfile
    /\ pc' = "construct"
    /\ UNCHANGED <<cmdVars, auxVars, retval, result, errArg, loopVars, storeVars, out,
                   reporter, output, selected, reporter_obj, ran, watchVars>>

\* Mutant of RunFinally: no `finally` clause, the stream is left as it is.
RunFinallyMissing(f) == f

\* the `finally` clause: the stream is closed when doit_run opened it
RunFinally(f) == IF output = "path" THEN "closed" ELSE f

\* reporter_obj = reporter_cls(outstream, show_out, True), which may raise
RunConstruct ==
    /\ cmd = "run" /\ pc = "construct"
    /\ \/ /\ reporter_obj' = TRUE
          /\ pc' = "run_tasks"
          /\ UNCHANGED <<result, outfile>>
       \/ /\ pc' = "done"
          /\ result' = "Exception"
          /\ outfile' = RunFinally(outfile)
          /\ UNCHANGED reporter_obj
    /\ UNCHANGED <<cmdVars, auxVars, retval, errArg, loopVars, storeVars, out,
                   reporter, output, selected, ran, watchVars>>

\* Dependency.save_dependencies as the runner calls it after a task's actions
\* succeeded: the task's fingerprints are stored.
Commit(store, S) ==
    [t \in DOMAIN store |->
        IF t \in S THEN [store[t] EXCEPT !.saved = TRUE] ELSE store[t]]

\* `return run_tasks(...)`: what doit_run returns, given what run_tasks did
RunReturn(v) == v

\* return run_tasks(...): the tasks in S succeed and are committed; the call
\* returns an exit code or raises; then the `finally` clause
RunTasks ==
    /\ cmd = "run" /\ pc = "run_tasks"
    /\ ran' = ran + 1
    /\ \E S \in SUBSET {t \in TaskNames : ~db[t].ignored} :
         /\ db' = Commit(db, S)
         /\ \/ \E r \in ExitCodes :
                  /\ result' = "return"
                  /\ run_ret' = <<r>>
                  /\ retval' = RunReturn(<<r>>)
            \/ result' = "Exception" /\ UNCHANGED <<retval, run_ret>>
    /\ outfile' = RunFinally(outfile)
    /\ pc' = "done"
    /\ UNCHANGED <<cmdVars, inVars, autoVars, cleaned, pending, errArg, loopVars, handle, calls, out,
                   reporter, output, selected, reporter_obj, watchVars>>

(***************************************************************************)
(* FileModifyWatcher                                                       *)
(*                                                                         *)
(* A path string is [abs, parts]: whether it starts with "/" and its       *)
(* components.  An absolute normalised path is the sequence of its         *)
(* components, <<>> being the root directory.                              *)
(***************************************************************************)
Rel(parts) == [abs |-> FALSE, parts |-> parts]

Abs(parts) == [abs |-> TRUE, parts |-> parts]

\* os.getcwd()
Cwd == <<"w">>

\* The paths a file_list is made of: /w/a written in four ways, a file in a
\* sub-directory, a file in the parent of the working directory, another
\* file of the working directory.
WatchPaths ==
    { Rel(<<"a">>), Rel(<<".", "a">>), Abs(<<"w", "a">>),
      Rel(<<"d", "..", "a">>), Rel(<<"d", "a">>), Rel(<<"..", "a">>),
      Rel(<<"b">>) }

\* The file names for which a watched directory reports events.
EventNames == {"a", "b"}

\* os.path.normpath on the components of an absolute path: "." is dropped,
\* ".." drops the component before it and is dropped itself at the root.
RECURSIVE NormParts(_, _)
NormParts(done, rest) ==
    IF rest = <<>> THEN done
    ELSE IF Head(rest) = "." THEN NormParts(done, Tail(rest))
    ELSE IF Head(rest) = ".."
           THEN NormParts(IF done = <<>> THEN <<>>
                          ELSE SubSeq(done, 1, Len(done) - 1), Tail(rest))
    ELSE NormParts(Append(done, Head(rest)), Tail(rest))

\* os.path.abspath(f): join with the working directory unless absolute, then
\* normalise.
AbsPath(f) == NormParts(<<>>, IF f.abs THEN f.parts ELSE Cwd \o f.parts)

\* os.path.dirname of an absolute normalised path.
DirName(p) == IF p = <<>> THEN <<>> ELSE SubSeq(p, 1, Len(p) - 1)

\* Mutant of WatcherFileList: the paths are kept as given, without abspath.
WatcherFileListRaw(fl) == {fl[i].parts : i \in 1..Len(fl)}

\* self.file_list = set([os.path.abspath(f) for f in file_list])
WatcherFileList(fl) == {AbsPath(fl[i]) : i \in 1..Len(fl)}

\* self.watch_dirs = set([os.path.dirname(f) for f in self.file_list])
WatcherWatchDirs(fset) == {DirName(f) : f \in fset}

\* FileModifyWatcher.__init__, called directly or as DoitAutoRun(watch_files)
WatcherInit ==
    /\ \/ cmd = "watch" /\ pc = "start"
       \/ cmd = "auto" /\ pc = "watcher"
    /\ file_list' = WatcherFileList(files)
    /\ watch_dirs' = WatcherWatchDirs(file_list')
    /\ pc' = "loop"
    /\ UNCHANGED <<cmdVars, auxVars, retval, result, errArg, loopVars, storeVars, out,
                   runVars, files, watches, event, handled, evCount, nHandled>>

\* loop: `for watch_this in self.watch_dirs: wm.add_watch(watch_this, mask)`,
\* one iteration, in the order the set is iterated in; then notifier.loop
WatcherAddWatch ==
    /\ cmd \in {"watch", "auto"} /\ pc = "loop"
    /\ IF watch_dirs \subseteq Range(watches)
         THEN /\ pc' = "notify"
              /\ UNCHANGED watches
         ELSE /\ \E watch_this \in watch_dirs \ Range(watches) :
                   watches' = Append(watches, watch_this)
              /\ UNCHANGED pc
    /\ UNCHANGED <<cmdVars, auxVars, retval, result, errArg, loopVars, storeVars, out,
                   runVars, files, file_list, watch_dirs, event, handled, evCount,
                   nHandled>>

\* Mutant of WatcherAccepts: every file of a watched directory is accepted.
WatcherAcceptsAll(pathname) == DirName(pathname) \in watch_dirs

\* _handle: `if event.pathname in self.file_list`
WatcherAccepts(pathname) == pathname \in file_list

\* DoitAutoRun.handle_event: the reporter name given to doit_run
AutoReporter == "executed-only"

\* DoitAutoRun.handle_event: the arguments of its doit_run call
AutoRunArgs ==
    [dependencyFile |-> "dependency_file", task_list |-> tasks,
     output |-> "sys.stdout", options |-> names, reporter |-> AutoReporter]

\* The notifier delivers a close-after-write event for a file of a watched
\* directory to process_default, which calls _handle; _handle calls
\* handle_event for a file of file_list: in DoitAutoRun it calls doit_run, in
\* FileModifyWatcher itself it raises NotImplementedError, which leaves loop.
WatcherEvent ==
    /\ cmd \in {"watch", "auto"} /\ pc = "notify"
    /\ evCount < MaxEvents
    /\ \E d \in Range(watches), n \in EventNames :
         LET pathname == Append(d, n) IN
         /\ event' = pathname
         /\ handled' = WatcherAccepts(pathname)
         /\ nHandled' = IF WatcherAccepts(pathname) THEN nHandled + 1 ELSE nHandled
         /\ nQualifying' =
                IF \E i \in 1..Len(files) : AbsPath(files[i]) = pathname
                  THEN nQualifying + 1 ELSE nQualifying
         /\ IF ~WatcherAccepts(pathname)
              THEN UNCHANGED <<pc, runLog, result>>
              ELSE IF cmd = "auto"
              THEN /\ pc' = "handle_event"
                   /\ runLog' = Append(runLog, AutoRunArgs)
                   /\ UNCHANGED result
              ELSE /\ pc' = "done"
                   /\ result' = "NotImplementedError"
                   /\ UNCHANGED runLog
    /\ evCount' = evCount + 1
    /\ UNCHANGED <<cmdVars, inVars, file_dep, runsDone, cleaned, run_ret, pending,
                   retval, errArg, loopVars, storeVars, out,
                   runVars, files, file_list, watch_dirs, watches>>

\* loop_callback stops notifier.loop
WatcherStop ==
    /\ cmd \in {"watch", "auto"} /\ pc = "notify"
    /\ pc' = "done"
    /\ result' = "return"
    /\ UNCHANGED <<cmdVars, auxVars, retval, errArg, loopVars, storeVars, out,
                   runVars, watchVars>>

(***************************************************************************)
(* doit_auto                                                               *)
(***************************************************************************)
\* Task.file_dep of the three tasks, as declared by the dodo file.
AutoFileDeps ==
    { Deps(<<>>, <<Rel(<<"a">>), Rel(<<"d", "a">>)>>, <<Rel(<<"b">>)>>),
      Deps(<<Rel(<<"..", "a">>)>>, <<Rel(<<".", "a">>)>>, <<Abs(<<"w", "a">>)>>) }

\* TaskSetup._add_task: a task is put in the plan after its task_dep.
RECURSIVE AddTask(_, _)
RECURSIVE AddTasks(_, _)
AddTask(plan, t) ==
    IF t \in Range(plan) THEN plan
    ELSE Append(AddTasks(plan, tasks.task_dep[t]), t)

AddTasks(plan, ts) ==
    IF ts = <<>> THEN plan ELSE AddTasks(AddTask(plan, Head(ts)), Tail(ts))

\* TaskSetup(task_list, filter_tasks).process(): the tasks named, or every
\* task in declaration order when none is named, each after its task_dep.
SelectedPlan(filter) ==
    AddTasks(<<>>, IF filter = <<>> THEN tasks.order ELSE filter)

\* itertools.chain(*seqs)
RECURSIVE Chain(_)
Chain(seqs) == IF seqs = <<>> THEN <<>> ELSE Head(seqs) \o Chain(Tail(seqs))

\* watch_files = list(itertools.chain(*[s.file_dep for s in selected_tasks]))
AutoWatchFiles(selected_tasks) ==
    Chain([i \in 1..Len(selected_tasks) |-> file_dep[selected_tasks[i]]])

\* The first name of a list that is not a task.
FirstUnknown(ns) ==
    ns[CHOOSE i \in 1..Len(ns) :
          /\ ns[i] \notin TaskNames
          /\ \A j \in 1..(i - 1) : ns[j] \in TaskNames]

\* selected_tasks = TaskSetup(...).process(); watch_files = ...
AutoStart ==
    /\ cmd = "auto" /\ pc = "start"
    /\ IF Range(names) \subseteq TaskNames
         THEN /\ files' = AutoWatchFiles(SelectedPlan(names))
              /\ pc' = "watcher"
              /\ UNCHANGED <<result, errArg>>
         ELSE /\ pc' = "done"
              /\ result' = "InvalidCommand"
              /\ errArg' = FirstUnknown(names)
              /\ UNCHANGED files
    /\ UNCHANGED <<cmdVars, auxVars, retval, loopVars, storeVars, out, runVars,
                   file_list, watch_dirs, watches, event, handled, evCount,
                   nHandled>>

\* Mutant of AutoRunDone: the watcher is rebuilt from the file_dep declared
\* after the run.
AutoRunDoneRewatch ==
    /\ cmd = "auto" /\ pc = "handle_event"
    /\ runsDone' = runsDone + 1
    /\ ran' = ran + 1
    /\ file_dep' \in AutoFileDeps
    /\ files' = Chain([i \in 1..Len(SelectedPlan(names)) |->
                          file_dep'[SelectedPlan(names)[i]]])
    /\ file_list' = WatcherFileList(files')
    /\ watch_dirs' = WatcherWatchDirs(file_list')
    /\ pc' = "notify"
    /\ UNCHANGED <<cmdVars, inVars, runLog, nQualifying, cleaned, run_ret,
                   pending, retval, result, errArg, loopVars, storeVars, out,
                   reporter, output, outfile, selected, reporter_obj,
                   watches, event, handled, evCount, nHandled>>

\* The doit_run call of handle_event ends: the tasks are selected and the
\* reporter is constructed; run_tasks commits the tasks of the plan that
\* succeeded, then returns (the value is dropped, the notifier waits for the
\* next event) or raises; or the reporter constructor raises before run_tasks
\* is called.  An exception leaves notifier.loop.  A run of the tasks may
\* have changed the declared file_dep.
AutoRunDone ==
    /\ cmd = "auto" /\ pc = "handle_event"
    /\ runsDone' = runsDone + 1
    /\ selected' = TRUE
    /\ IF AutoReporter \notin REPORTERS
         THEN /\ pc' = "done"
              /\ result' = "InvalidCommand"
              /\ errArg' = AutoReporter
              /\ UNCHANGED <<db, ran, file_dep, reporter_obj, run_ret>>
         ELSE /\ UNCHANGED errArg
              /\ \/ /\ reporter_obj' = TRUE
                    /\ ran' = ran + 1
                    /\ file_dep' \in AutoFileDeps
                    /\ \E S \in SUBSET {t \in Range(SelectedPlan(names)) :
                                            ~db[t].ignored} :
                          db' = Commit(db, S)
                    /\ \/ \E r \in ExitCodes :
                             /\ run_ret' = <<r>>
                             /\ pc' = "notify"
                             /\ UNCHANGED result
                       \/ /\ pc' = "done"
                          /\ result' = "Exception"
                          /\ UNCHANGED run_ret
                 \/ /\ pc' = "done"
                    /\ result' = "Exception"
                    /\ UNCHANGED <<db, ran, file_dep, reporter_obj, run_ret>>
    /\ UNCHANGED <<cmdVars, inVars, runLog, nQualifying, cleaned, pending,
                   retval, loopVars, handle, calls, out,
                   reporter, output, outfile, watchVars>>

(***************************************************************************)
(* doit_clean                                                              *)
(***************************************************************************)
\* task_.clean(outstream, dryrun)
CleanCall(name) ==
    [task |-> name, outstream |-> "outstream", dryrun |-> opts.dryrun]

\* `if not clean_tasks`: the tasks the loop goes over
CleanList == IF names = <<>> THEN tasks.order ELSE names

\* One turn of the `for` loop of either branch; tasks[name] raises KeyError
\* for a name that is not a task; the function returns None after the loop.
CleanNext ==
    /\ cmd = "clean" /\ pc = "start"
    /\ IF idx > Len(CleanList)
         THEN /\ pc' = "done"
              /\ result' = "return"
              /\ UNCHANGED <<idx, cleaned, errArg>>
         ELSE IF CleanList[idx] \notin TaskNames
         THEN /\ pc' = "done"
              /\ result' = "KeyError"
              /\ errArg' = CleanList[idx]
              /\ UNCHANGED <<idx, cleaned>>
         ELSE /\ cleaned' = Append(cleaned, CleanCall(CleanList[idx]))
              /\ idx' = idx + 1
              /\ UNCHANGED <<pc, result, errArg>>
    /\ UNCHANGED <<cmdVars, inVars, autoVars, run_ret, pending, retval, group,
                   storeVars, out, runVars, watchVars>>

(***************************************************************************)
(* doit_list                                                               *)
(***************************************************************************)
\* The task names of the list command, and the characters of each name.
ListNames == {"a", "a:x", "ab", "_p"}

NameChars ==
    ("a" :> <<"a">>) @@ ("a:x" :> <<"a", ":", "x">>) @@ ("ab" :> <<"a", "b">>)
    @@ ("_p" :> <<"_", "p">>) @@ ("_" :> <<"_">>) @@ (Unknown :> <<"n", "o", "p", "e">>)

\* str.startswith on the characters of two strings
StartsWithChars(cs, cp) ==
    Len(cp) <= Len(cs) /\ SubSeq(cs, 1, Len(cp)) = cp

\* subt.startswith("%s" % task.name)
SubtaskTest(subt, name) == StartsWithChars(NameChars[subt], NameChars[name])

\* task.name.startswith('_')
IsPrivate(name) == StartsWithChars(NameChars[name], NameChars["_"])

\* Dependency.get_status(task): ignore when the record is flagged; run when
\* there is no record, a file_dep differs from its stored fingerprint or a
\* task_dep is not up-to-date; up-to-date otherwise.
RECURSIVE GetStatus(_)
GetStatus(t) ==
    IF db[t].ignored THEN "ignore"
    ELSE IF ~db[t].saved \/ t \in stale THEN "run"
    ELSE IF \E i \in 1..Len(tasks.task_dep[t]) :
               GetStatus(tasks.task_dep[t][i]) # "up-to-date" THEN "run"
    ELSE "up-to-date"

\* Mutant of ListStatusLetter: the letters of up-to-date and run are exchanged.
ListStatusLetterSwapped(status) ==
    CASE status = "ignore" -> "I"
      [] status = "up-to-date" -> "R"
      [] status = "run" -> "U"

\* status_map = {'ignore': 'I', 'up-to-date': 'U', 'run': 'R'}
ListStatusLetter(status) ==
    CASE status = "ignore" -> "I"
      [] status = "up-to-date" -> "U"
      [] status = "run" -> "R"

\* The line _list_print_task writes: status letter, name, doc.
ListLine(t) ==
    <<IF opts.print_status THEN ListStatusLetter(GetStatus(t)) ELSE "",
      t,
      IF opts.print_doc /\ tasks.doc[t] # "" THEN tasks.doc[t] ELSE "">>

\* `for subt in task.task_dep: if subt.startswith(...)`: the task_dep entries
\* that _list_print_task prints under the task, in task_dep order
RECURSIVE ListSubtasks(_, _)
ListSubtasks(deps, name) ==
    IF deps = <<>> THEN <<>>
    ELSE (IF SubtaskTest(Head(deps), name) THEN <<Head(deps)>> ELSE <<>>)
         \o ListSubtasks(Tail(deps), name)

\* tasks = dict(...); print_tasks from filter_tasks (KeyError for a name that
\* is not a task) or the whole task list; the store is opened for the status.
ListStart ==
    /\ cmd = "list" /\ pc = "start"
    /\ IF Range(names) \subseteq ListNames
         THEN /\ group' = (IF names # <<>> THEN names ELSE tasks.order)
              /\ handle' = (IF opts.print_status THEN "open" ELSE handle)
              /\ pc' = "for"
              /\ UNCHANGED <<result, errArg>>
         ELSE /\ pc' = "done"
              /\ result' = "KeyError"
              /\ errArg' = Unknown
              /\ UNCHANGED <<group, handle>>
    /\ UNCHANGED <<cmdVars, auxVars, retval, idx, db, calls, out, runVars,
                   watchVars>>

\* `if (not filter_tasks) and task.is_subtask` / `if (not print_private) and ...`
ListSkips(t) ==
    \/ names = <<>> /\ tasks.is_subtask[t]
    \/ ~opts.print_private /\ IsPrivate(t)

\* One turn of `for task in print_tasks`, up to the call of _list_print_task;
\* `return 0` after the loop.
ListNext ==
    /\ cmd = "list" /\ pc = "for"
    /\ IF idx > Len(group)
         THEN /\ pc' = "done"
              /\ result' = "return"
              /\ retval' = <<0>>
              /\ UNCHANGED <<idx, pending>>
         ELSE /\ idx' = idx + 1
              /\ UNCHANGED <<result, retval>>
              /\ IF ListSkips(group[idx])
                   THEN UNCHANGED <<pc, pending>>
                   ELSE pc' = "print" /\ pending' = <<group[idx]>>
    /\ UNCHANGED <<cmdVars, inVars, autoVars, cleaned, run_ret, errArg, group,
                   storeVars, out, runVars, watchVars>>

\* _list_print_task(task): the status query (which may raise), the line, and
\* the calls for the matching task_dep entries, made before the caller goes on.
ListPrint ==
    /\ cmd = "list" /\ pc = "print"
    /\ LET t == Head(pending) IN
       \/ /\ out' = Append(out, ListLine(t))
          /\ calls' = (IF opts.print_status
                         THEN Append(calls, <<"get_status", t>>) ELSE calls)
          /\ pending' = (IF opts.print_subtasks
                           THEN ListSubtasks(tasks.task_dep[t], t) ELSE <<>>)
                        \o Tail(pending)
          /\ pc' = (IF pending' = <<>> THEN "for" ELSE "print")
          /\ UNCHANGED result
       \/ /\ opts.print_status
          /\ calls' = Append(calls, <<"get_status", t>>)
          /\ pc' = "done"
          /\ result' = "Exception"
          /\ UNCHANGED <<out, pending>>
    /\ UNCHANGED <<cmdVars, inVars, autoVars, cleaned, run_ret, retval, errArg,
                   loopVars, db, handle, runVars, watchVars>>

(***************************************************************************)
(* Specification                                                           *)
(***************************************************************************)
InitIdle ==
    /\ pc = "start" /\ result = "none" /\ errArg = "" /\ retval = <<>>
    /\ idx = 1 /\ group = <<>>
    /\ db = db0 /\ handle = "none" /\ calls = <<>> /\ out = <<>>
    /\ outfile = "unopened" /\ selected = FALSE /\ reporter_obj = FALSE /\ ran = 0
    /\ file_list = {} /\ watch_dirs = {} /\ watches = <<>>
    /\ event = <<"none">> /\ handled = FALSE /\ evCount = 0 /\ nHandled = 0
    /\ runLog = <<>> /\ runsDone = 0 /\ nQualifying = 0
    /\ cleaned = <<>> /\ run_ret = <<>> /\ pending = <<>>

\* The commands that take no flags and read no file state.
InitNoFlags == opts = [none |-> TRUE] /\ stale = {}

\* The commands other than doit_auto read no file_dep.
InitNoFileDep == file_dep = [t \in TaskNames |-> <<>>]

InitForgetIgnore ==
    /\ cmd \in {"forget", "ignore"}
    /\ tasks \in TaskLists
    /\ names \in SeqsUpTo(RequestNames, MaxNames)
    /\ db0 \in InitStores
    /\ reporter = "default" /\ output = "stream" /\ files = <<>>
    /\ InitNoFlags /\ InitNoFileDep

\* The task list of the run command: a group a of b and c.
RunTaskList ==
    [actions |-> Deps(FALSE, TRUE, TRUE),
     task_dep |-> Deps(<<"b", "c">>, <<>>, <<>>)]

InitRun ==
    /\ cmd = "run"
    /\ tasks = RunTaskList
    /\ names = <<>>
    /\ db0 \in InitStores
    /\ reporter \in ReporterNames
    /\ output \in {"path", "stream"}
    /\ files = <<>>
    /\ InitNoFlags /\ InitNoFileDep

InitWatch ==
    /\ cmd = "watch"
    /\ tasks = RunTaskList
    /\ names = <<>>
    /\ db0 = [t \in TaskNames |-> NoRecord]
    /\ reporter = "default" /\ output = "stream"
    /\ files \in SeqsUpTo(WatchPaths, MaxFiles)
    /\ InitNoFlags /\ InitNoFileDep

\* The task list of doit_auto: the same three tasks, in declaration order.
AutoTaskList ==
    [actions |-> RunTaskList.actions, task_dep |-> RunTaskList.task_dep,
     order |-> <<"a", "b", "c">>]

InitAuto ==
    /\ cmd = "auto"
    /\ tasks = AutoTaskList
    /\ names \in SeqsUpTo(RequestNames, MaxNames)
    /\ db0 = [t \in TaskNames |-> NoRecord]
    /\ reporter = AutoReporter /\ output = "stream"
    /\ files = <<>>
    /\ InitNoFlags
    /\ file_dep \in AutoFileDeps

InitClean ==
    /\ cmd = "clean"
    /\ tasks = AutoTaskList
    /\ names \in SeqsUpTo(RequestNames, MaxNames)
    /\ db0 = [t \in TaskNames |-> NoRecord]
    /\ reporter = "default" /\ output = "stream" /\ files = <<>>
    /\ opts \in [dryrun : BOOLEAN]
    /\ stale = {}
    /\ InitNoFileDep

\* The task lists of doit_list: a task with a sub-task and with another task
\* whose name begins alike in its task_dep, and a private task.
ListTaskLists ==
    { [order |-> o,
       actions |-> [n \in ListNames |-> TRUE],
       task_dep |-> [n \in ListNames |-> IF n = "a" THEN d ELSE <<>>],
       is_subtask |-> [n \in ListNames |-> n = "a:x"],
       doc |-> [n \in ListNames |-> IF n = "a" THEN "doc" ELSE ""]] :
      o \in {<<"a", "a:x", "ab", "_p">>, <<"_p", "ab", "a", "a:x">>},
      d \in {<<"a:x", "ab">>, <<"a:x">>} }

\* The records a store can hold for one task.
ListRecords == {NoRecord, Saved, Ignore([t \in {"a"} |-> Saved], "a")["a"]}

ListRequestNames == {"a", "a:x", "_p", Unknown}

InitList ==
    /\ cmd = "list"
    /\ tasks \in ListTaskLists
    /\ names \in SeqsUpTo(ListRequestNames, MaxNames)
    /\ \E ra, rx \in ListRecords :
          db0 = [n \in ListNames |->
                   IF n = "a" THEN ra ELSE IF n = "a:x" THEN rx ELSE Saved]
    /\ reporter = "default" /\ output = "stream" /\ files = <<>>
    /\ opts \in [print_subtasks : BOOLEAN, print_doc : BOOLEAN,
                 print_status : BOOLEAN, print_private : BOOLEAN]
    /\ stale \in SUBSET {"a"}
    /\ InitNoFileDep

Init ==
    /\ \/ InitForgetIgnore \/ InitRun \/ InitWatch \/ InitAuto \/ InitClean
       \/ InitList
    /\ InitIdle

Next ==
    \/ ForgetOpen \/ ForgetAll \/ ForgetNext \/ ForgetStep \/ ForgetClose
    \/ IgnoreOpen \/ IgnoreNext \/ IgnoreStep \/ IgnoreClose
    \/ RunSelect \/ RunCheckReporter \/ RunOpen \/ RunConstruct \/ RunTasks
    \/ WatcherInit \/ WatcherAddWatch \/ WatcherEvent \/ WatcherStop
    \/ AutoStart \/ AutoRunDone
    \/ CleanNext
    \/ ListStart \/ ListNext \/ ListPrint

Spec == Init /\ [][Next]_vars

(***************************************************************************)
(* Properties                                                              *)
(***************************************************************************)
\* The tasks reachable from S through task_dep edges out of tasks without
\* actions, S included.
RECURSIVE GroupReach(_)
GroupReach(S) ==
    LET T == S \cup UNION {Range(tasks.task_dep[t]) :
                              t \in {u \in S : ~tasks.actions[u]}}
    IN IF T = S THEN S ELSE GroupReach(T)

\* The arguments of the calls of one method made on the store.
CalledWith(method) == {c[2] : c \in {x \in Range(calls) : x[1] = method}}

NoDuplicates(s) == \A i, j \in 1..Len(s) : s[i] = s[j] => i = j

AllKnown == Range(names) \subseteq TaskNames

Returned(c) == cmd = c /\ pc = "done" /\ result = "return"

\* C1: when doit_forget returns for a non-empty request of existing names,
\* remove was called on exactly the requested tasks and the tasks reachable
\* from them through task_dep of tasks without actions; these records are
\* gone and every other record is as it was.
C1_ForgetRemovesGroupClosure ==
    (Returned("forget") /\ names # <<>> /\ AllKnown) =>
        /\ CalledWith("remove") = GroupReach(Range(names))
        /\ CalledWith("remove_all") = {}
        /\ \A t \in TaskNames :
             db[t] = IF t \in GroupReach(Range(names)) THEN NoRecord ELSE db0[t]

\* A group is forgotten whose member has actions and task_dep of its own: the
\* member's task_dep is not followed, and its record is still stored.
C1_Witness ==
    /\ Returned("forget") /\ names = <<"a">>
    /\ ~tasks.actions["a"] /\ tasks.task_dep["a"] = <<"b">>
    /\ tasks.actions["b"] /\ tasks.task_dep["b"] = <<"c">>
    /\ db0["c"].saved /\ db["c"] = db0["c"]
    /\ calls = <<ForgetCall("a"), ForgetCall("b")>>

\* C2: doit_ignore makes no call on the store but ignore and leaves every
\* stored fingerprint in place; when it returns for a non-empty request of
\* existing names, ignore was applied to exactly the requested tasks and the
\* tasks reachable from them through task_dep of tasks without actions.
C2_IgnoreMarksGroupClosure ==
    cmd = "ignore" =>
        /\ \A c \in Range(calls) : c[1] = "ignore"
        /\ \A t \in TaskNames : db[t].saved = db0[t].saved
        /\ (Returned("ignore") /\ names # <<>> /\ AllKnown) =>
             /\ CalledWith("ignore") = GroupReach(Range(names))
             /\ \A t \in TaskNames :
                  db[t].ignored =
                      (db0[t].ignored \/ t \in GroupReach(Range(names)))

\* A group of two members is ignored; a saved record keeps its fingerprints.
C2_Witness ==
    /\ Returned("ignore") /\ names = <<"a">>
    /\ ~tasks.actions["a"] /\ tasks.task_dep["a"] = <<"b", "c">>
    /\ tasks.actions["b"] /\ tasks.actions["c"]
    /\ CalledWith("ignore") = {"a", "b", "c"}
    /\ db0["a"] = Saved /\ db["a"] = SavedIgnored

\* C3: doit_ignore with an empty list never opens the store, makes no call on
\* it, changes no record, writes the refusal line alone and returns; an ignore
\* of a non-empty list writes only "ignoring" lines.
C3_IgnoreEmptyRefused ==
    cmd = "ignore" =>
        /\ names = <<>> =>
             /\ handle = "none" /\ calls = <<>> /\ db = db0
             /\ pc = "done" => (out = <<RefusalLine>> /\ result = "return")
        /\ names # <<>> =>
             /\ \A i \in 1..Len(out) : out[i][1] = "ignoring"
             /\ Returned("ignore") => out # <<RefusalLine>>

\* The refusal has been written on a store that holds records.
C3_Witness ==
    /\ cmd = "ignore" /\ names = <<>> /\ pc = "done"
    /\ out = <<RefusalLine>> /\ db0["a"].saved

\* C4 (as claimed): when doit_forget or doit_ignore fails with InvalidCommand
\* for an unknown name, the error names it, no call has been made on the
\* store, no record has changed and no line has been written.
C4_UnknownNameNoPartialChange ==
    (cmd \in {"forget", "ignore"} /\ result = "InvalidCommand") =>
        /\ errArg \notin TaskNames /\ errArg \in Range(names)
        /\ calls = <<>> /\ db = db0 /\ out = <<>>

\* C5 (as claimed): when doit_forget is done, every remove of a task
\* without actions comes after a remove of each of its task_dep members.
C5_MembersRemovedBeforeGroup ==
    (cmd = "forget" /\ pc = "done") =>
        \A i \in 1..Len(calls) :
            (calls[i][1] = "remove" /\ ~tasks.actions[calls[i][2]]) =>
                \A m \in Range(tasks.task_dep[calls[i][2]]) :
                    \E j \in 1..(i - 1) : calls[j] = ForgetCall(m)

\* C5 (amended): when doit_forget is done, every remove of a task without
\* actions is followed later by a remove of each of its task_dep members, and
\* the first remove made for a requested name is that of the name itself.
C5_GroupRemovedBeforeMembers ==
    (cmd = "forget" /\ pc = "done") =>
        /\ \A i \in 1..Len(calls) :
             (calls[i][1] = "remove" /\ ~tasks.actions[calls[i][2]]) =>
                 \A m \in Range(tasks.task_dep[calls[i][2]]) :
                     \E j \in (i + 1)..Len(calls) : calls[j] = ForgetCall(m)
        /\ (names # <<>> /\ names[1] \in TaskNames) =>
             (calls # <<>> /\ calls[1] = ForgetCall(names[1]))

\* A group of two members with actions has been forgotten: group first.
C5_Witness ==
    /\ Returned("forget") /\ names = <<"a">>
    /\ ~tasks.actions["a"] /\ tasks.task_dep["a"] = <<"b", "c">>
    /\ calls = <<ForgetCall("a"), ForgetCall("b"), ForgetCall("c")>>

\* C6 (as claimed): doit_forget and doit_ignore never end with the store
\* handle opened and not closed.
C6_HandleClosedOnEveryExit ==
    (cmd \in {"forget", "ignore"} /\ pc = "done") => handle # "open"

\* C7 (as claimed): when doit_forget or doit_ignore returns, no task has been
\* given to remove/ignore twice and no line has been written twice: there is
\* one call and one line per affected task.
C7_OneCallAndLinePerTask ==
    ((Returned("forget") \/ Returned("ignore")) /\ names # <<>>) =>
        /\ NoDuplicates(calls) /\ NoDuplicates(out)
        /\ Len(calls) = Cardinality(GroupReach(Range(names)))
        /\ Len(out) = Cardinality(GroupReach(Range(names)))

\* C8: doit_forget with an empty list calls remove_all once and remove never,
\* leaves no record and no ignored marker, writes one line and closes the
\* store.
C8_ForgetAllClearsStore ==
    (cmd = "forget" /\ names = <<>> /\ pc = "done") =>
        /\ calls = <<ForgetAllCall>>
        /\ \A t \in TaskNames : db[t] = NoRecord
        /\ out = <<ForgetAllLine>>
        /\ handle = "closed" /\ result = "return"

\* Forget-all on a store holding a saved record and an ignored one.
C8_Witness ==
    /\ cmd = "forget" /\ names = <<>> /\ pc = "done"
    /\ db0["a"] = Saved /\ db0["b"] = SavedIgnored
    /\ db["a"] = NoRecord /\ db["b"] = NoRecord

\* C9 as stated: doit_run with a reporter name that is not in the registry
\* raises InvalidCommand before execution starts: run_tasks is never invoked,
\* no record changes, no reporter is constructed and the output is not opened.
C9_UnknownReporterRaisesInvalidCommand ==
    (cmd = "run" /\ reporter \notin REPORTERS) =>
        /\ ran = 0 /\ ~reporter_obj /\ outfile = "unopened" /\ db = db0
        /\ pc \in {"start", "reporter", "done"}
        /\ pc = "done" => result = "InvalidCommand"

\* C9, amended: doit_run with a reporter name that is not in the registry
\* never invokes run_tasks, constructs no reporter, does not open the output
\* and changes no record; it ends by raising: the error of the task selection
\* when the selection, which comes first, fails (InvalidCommand or
\* SelectionError), and InvalidCommand naming the reporter once the tasks
\* were selected.
C9_UnknownReporterRaisesBeforeRun ==
    (cmd = "run" /\ reporter \notin REPORTERS) =>
        /\ ran = 0 /\ ~reporter_obj /\ outfile = "unopened" /\ db = db0
        /\ pc \in {"start", "reporter", "done"}
        /\ pc = "done" =>
             /\ result \in {"InvalidCommand", "SelectionError"}
             /\ selected => (result = "InvalidCommand" /\ errArg = reporter)

\* The reporter check has raised for an output given as a file path.
C9_Witness ==
    /\ cmd = "run" /\ reporter \notin REPORTERS /\ output = "path"
    /\ selected /\ pc = "done" /\ result = "InvalidCommand"
    /\ errArg = reporter /\ outfile = "unopened"

\* The parent directories of the watched files, from the file_list argument.
ParentDirs == {DirName(AbsPath(files[i])) : i \in 1..Len(files)}

\* C10: an event reaches handle_event iff its pathname is the absolute path
\* of one of the watched files; once the watches are installed there is one
\* watch per distinct parent directory of the watched files and no other.
C10_EventsFilteredToWatchedFiles ==
    cmd = "watch" =>
        /\ evCount > 0 =>
             (handled <=> \E i \in 1..Len(files) : AbsPath(files[i]) = event)
        /\ nHandled <= evCount
        /\ pc \in {"notify", "done"} =>
             /\ Range(watches) = ParentDirs
             /\ Len(watches) = Cardinality(ParentDirs)

\* Two files of two directories are watched, one of them written with "..";
\* an event for another file of a watched directory was dropped and then an
\* event for the file written with ".." was handled.
C10_Witness ==
    /\ cmd = "watch" /\ pc = "done" /\ result = "NotImplementedError"
    /\ files = <<Rel(<<"d", "..", "a">>), Rel(<<"d", "a">>)>>
    /\ Len(watches) = 2
    /\ evCount = 2 /\ nHandled = 1 /\ handled
    /\ event = <<"w", "a">>


(***************************************************************************)
(* doit_auto: runs and the watch set                                       *)
(***************************************************************************)
\* The arguments doit_auto was called with, as a doit_run call repeats them.
SameRunConfig(args) ==
    /\ args.dependencyFile = "dependency_file"
    /\ args.task_list = tasks
    /\ args.options = names
    /\ args.output = "sys.stdout"
    /\ args.reporter = "executed-only"

\* C11: in doit_auto every close-after-write event for a watched file starts
\* exactly one doit_run with the dependency file, task list, filter and
\* reporter of the doit_auto call, and that run has ended when the next event
\* is handled: the number of runs is the number of such events, and there is
\* no run for another event or before the first event.
C11_OneRunPerQualifyingEvent ==
    cmd = "auto" =>
        /\ Len(runLog) = nQualifying
        /\ \A i \in 1..Len(runLog) : SameRunConfig(runLog[i])
        /\ Len(runLog) - runsDone = (IF pc = "handle_event" THEN 1 ELSE 0)
        /\ (pc = "notify" => runsDone = Len(runLog))
        /\ (evCount = 0 => runLog = <<>>)
        /\ Len(runLog) <= evCount

C11_Witness ==
    /\ cmd = "auto" /\ pc = "notify" /\ names # <<>>
    /\ evCount = 2 /\ nQualifying = 1 /\ runsDone = 1

\* The file_dep of the plan of the doit_auto call, as a set.
RECURSIVE DepClosure(_)
DepClosure(S) ==
    LET T == S \cup UNION {Range(tasks.task_dep[t]) : t \in S}
    IN IF T = S THEN S ELSE DepClosure(T)

PlanFileDeps ==
    UNION {Range(file_dep[t]) :
              t \in DepClosure(IF names = <<>> THEN TaskNames ELSE Range(names))}

\* C12: the files and directories doit_auto watches come from the file_dep
\* of the plan selected before the loop starts, and stay the same for the
\* whole loop, also when a run changes the declared file_dep.
C12_WatchSetFixedAtStart ==
    /\ [](cmd = "auto" =>
            /\ (pc = "watcher" => Range(files) = PlanFileDeps)
            /\ (pc \in {"loop", "notify", "handle_event"} =>
                  /\ file_list = {AbsPath(f) : f \in Range(files)}
                  /\ watch_dirs = {DirName(p) : p \in file_list})
            /\ (pc \in {"notify", "handle_event"} => Range(watches) = watch_dirs))
    /\ [][cmd = "auto" =>
            /\ (pc # "start" => files' = files)
            /\ (pc \notin {"start", "watcher"} =>
                  file_list' = file_list /\ watch_dirs' = watch_dirs)
            /\ (pc \in {"notify", "handle_event"} => watches' = watches)]_vars

C12_Witness ==
    /\ cmd = "auto" /\ pc = "notify" /\ runsDone = 1
    /\ Range(files) # PlanFileDeps
    /\ file_list = {AbsPath(f) : f \in Range(files)}


(***************************************************************************)
(* doit_run: the output stream and the return value                        *)
(***************************************************************************)
\* C17: when doit_run was given a path, the stream it opened is closed on
\* every way out after the open (run_tasks returned, run_tasks raised, the
\* reporter constructor raised); a stream given by the caller is never
\* closed; doit_run returns exactly what run_tasks returned.
C17_OpenedStreamClosedAndValueReturned ==
    cmd = "run" =>
        /\ (pc = "done" /\ output = "path" => outfile \in {"unopened", "closed"})
        /\ (pc = "done" /\ output = "path" /\ (ran > 0 \/ result = "Exception")
              => outfile = "closed")
        /\ (output = "stream" => outfile = "unopened")
        /\ (pc = "done" /\ result = "return" => run_ret # <<>> /\ retval = run_ret)
        /\ (run_ret = <<>> => retval = <<>>)

C17_Witness ==
    /\ cmd = "run" /\ pc = "done" /\ output = "path"
    /\ result = "Exception" /\ ran = 0 /\ outfile = "closed"


(***************************************************************************)
(* doit_clean                                                              *)
(***************************************************************************)
\* The tasks of the clean calls made so far, in call order.
CleanedTasks == [i \in 1..Len(cleaned) |-> cleaned[i].task]

\* C16: when doit_clean returns, clean was called exactly once on every
\* selected task and on no other task: on every task of the task list in
\* declaration order when clean_tasks is empty, on exactly the named tasks in
\* request order without their group members otherwise; every call got the
\* output stream and the dry-run flag of the doit_clean call.
C16_CleanOncePerSelectedTask ==
    Returned("clean") =>
        /\ Range(CleanedTasks) =
              (IF names = <<>> THEN Range(tasks.order) ELSE Range(names))
        /\ NoDuplicates(CleanedTasks)
        /\ \A i, j \in 1..Len(cleaned) :
              i < j => \E k, l \in 1..Len(CleanList) :
                          /\ k < l
                          /\ CleanList[k] = cleaned[i].task
                          /\ CleanList[l] = cleaned[j].task
        /\ \A i \in 1..Len(cleaned) :
              cleaned[i].dryrun = opts.dryrun /\ cleaned[i].outstream = "outstream"

\* What does hold: one clean call per entry of the list the loop goes over,
\* in the order of the list, each with the flag and stream of the call.
C16_CleanOncePerEntry ==
    cmd = "clean" =>
        /\ Len(cleaned) = idx - 1
        /\ \A i \in 1..Len(cleaned) :
              /\ cleaned[i].task = CleanList[i]
              /\ cleaned[i].dryrun = opts.dryrun
              /\ cleaned[i].outstream = "outstream"
        /\ (pc = "done" /\ result = "return" => Len(cleaned) = Len(CleanList))

(***************************************************************************)
(* doit_forget / doit_ignore: termination                                  *)
(***************************************************************************)
\* A group task can reach itself through task_dep of group tasks.
GroupCycle ==
    \E t \in TaskNames :
        /\ ~tasks.actions[t]
        /\ t \in GroupReach(Range(tasks.task_dep[t]))

\* C14: doit_forget and doit_ignore end for every task graph, also when the
\* task_dep of group tasks form a cycle: the command never keeps working
\* without end.  MaxCalls store calls are more than a traversal of MaxNames
\* requests needs when no group reaches itself, so a command that is not done
\* can always take a step.
C14_ForgetIgnoreTerminate ==
    cmd \in {"forget", "ignore"} => (pc = "done" \/ ENABLED Next)

\* Without a cycle of group tasks the commands do end.
C14_AcyclicTerminate ==
    cmd \in {"forget", "ignore"} /\ ~GroupCycle => (pc = "done" \/ ENABLED Next)

(***************************************************************************)
(* doit_list                                                               *)
(***************************************************************************)
\* The names of the lines written so far.
ListedNames == [i \in 1..Len(out) |-> out[i][2]]

\* The task has run successfully, its task_dep with it, and nothing changed.
RanUnchanged(t) ==
    \A u \in DepClosure({t}) :
        /\ db[u] = Commit([v \in {u} |-> NoRecord], {u})[u]
        /\ u \notin stale

\* C13: with print_status every line of doit_list starts with the letter of
\* the task's status in the store (ignore I, up-to-date U, run R): R for a
\* task without a record, U for a task that ran successfully with nothing
\* changed since, I for an ignored task whatever the state of its files; and
\* doit_list changes no record of the store.
C13_StatusLetterFromStore ==
    cmd = "list" =>
        /\ db = db0
        /\ \A i \in 1..Len(out) :
              LET letter == out[i][1]
                  t == out[i][2]
              IN IF ~opts.print_status THEN letter = ""
                 ELSE /\ letter \in {"I", "U", "R"}
                      /\ (db[t] = NoRecord => letter = "R")
                      /\ (RanUnchanged(t) => letter = "U")
                      /\ (db[t].ignored <=> letter = "I")
                      /\ (letter = "U" => db[t].saved /\ t \notin stale)

C13_Witness ==
    /\ Returned("list") /\ opts.print_status
    /\ \E i, j, k \in 1..Len(out) :
          /\ out[i][1] = "I" /\ out[i][2] \in stale
          /\ out[j][1] = "R" /\ db[out[j][2]] = NoRecord
          /\ out[k][1] = "U" /\ RanUnchanged(out[k][2])

\* A sub-task of a task is named parent:child.
IsChildOf(c, t) ==
    LET cs == NameChars[c]
        ps == NameChars[t] \o <<":">>
    IN Len(cs) > Len(ps) /\ \A i \in 1..Len(ps) : cs[i] = ps[i]

\* The lines of a task: its own and, with print_subtasks, those of its
\* sub-tasks.
RECURSIVE LinesOf(_)
LinesOf(t) ==
    LET kids == SelectSeq(tasks.task_dep[t], LAMBDA c : IsChildOf(c, t))
    IN <<t>> \o (IF opts.print_subtasks
                   THEN Chain([i \in 1..Len(kids) |-> LinesOf(kids[i])])
                   ELSE <<>>)

\* A task named at top level is listed.
TopVisible(t) ==
    /\ names = <<>> => ~tasks.is_subtask[t]
    /\ NameChars[t][1] = "_" => opts.print_private

\* C15: doit_list writes the lines of the tasks in declaration order, or in
\* filter order with a filter; without a filter no sub-task is listed at top
\* level, with a filter a named sub-task is; a task whose name starts with
\* '_' is listed only with print_private; with print_subtasks the lines under
\* a task are exactly its sub-tasks parent:child, and no other task_dep entry
\* whose name begins with the name of the task.
C15_ListOrderAndVisibility ==
    Returned("list") =>
        LET top == IF names = <<>> THEN tasks.order ELSE names
        IN ListedNames =
             Chain([i \in 1..Len(top) |->
                      IF TopVisible(top[i]) THEN LinesOf(top[i]) ELSE <<>>])

\* C18: the store that doit_list opens for print_status is closed when
\* doit_list is left, by return or by an error of the status query or of a
\* task lookup; without print_status the store is never opened.
C18_ListClosesStore ==
    cmd = "list" =>
        /\ (pc = "done" => handle # "open")
        /\ (~opts.print_status => handle = "none")

====
